---- MODULE Spec2Model ----
(***************************************************************************)
(* Seattle-Source-Ranker: the incremental collection engine.               *)
(*                                                                         *)
(*  - the project pool of collectors/incremental_collector.py              *)
(*    (IncrementalProjectCollector: add_new_projects, _save_projects)      *)
(*  - the checkpointed collection of collectors/cursor_manager.py          *)
(*    (CursorManager, IncrementalCollector.collect_with_resume) driving    *)
(*    collectors/graphql_client.py (fetch_all_repositories)                *)
(***************************************************************************)
EXTENDS Integers, Sequences, FiniteSets, TLC

(***************************************************************************)
(* Bounds of the model.                                                    *)
(***************************************************************************)
\* longest candidate list handed to one add_new_projects call
MaxCands == 2
\* largest max_total handed to add_new_projects
MaxTotal == 3
\* most items one page of the search holds (batch_size, 100 in the code)
PageSize == 2
\* most pages the search result holds
MaxPages == 2
\* largest checkpoint_interval
MaxInterval == 2
\* largest max_results handed to collect_with_resume
MaxResults == 3
\* most times a collection process is killed in one behaviour
MaxCrashes == 1
\* last day of the calendar, and the largest days_old
MaxDay == 2
\* largest max_users of a user search
MaxUsers == 3
\* latest X-RateLimit-Reset a 403 answer carries
MaxReset == 2

\* An Optional[Dict]: <<>> is Python's None, <<d>> is the dictionary d
None == <<>>
Some(d) == <<d>>
\* A file: the path does not exist, or it holds a list of records
NoFile == [exists |-> FALSE, data |-> <<>>]
File(projects) == [exists |-> TRUE, data |-> projects]
\* a file whose text is not a whole JSON document: opened for writing and not
\* yet, or not completely, written; `written` is what it holds so far
Partial(written) == [exists |-> TRUE, data |-> written, partial |-> TRUE]
IsComplete(f) == f.exists /\ "partial" \notin DOMAIN f

(***************************************************************************)
(* Repository records.  A record is the dictionary the collectors build;   *)
(* the fields kept are the ones the pool code reads.  updated_at is an     *)
(* ISO-8601 string in the code, compared as a string: it is modelled by a  *)
(* number with the same order.                                              *)
(***************************************************************************)
Keys == {"o/a", "o/b", "o/c"}
\* the star counts a snapshot reports: two levels, so that counts can differ
\* and one can exceed the other
Stars == {0, 1}

\* Per repository: forks, watchers and the time of its first snapshot.
ForksOf(k) == CASE k = "o/a" -> 2 [] k = "o/b" -> 0 [] OTHER -> 1
WatchersOf(k) == CASE k = "o/a" -> 1 [] k = "o/b" -> 0 [] OTHER -> 0
FirstSeen(k) == CASE k = "o/a" -> 0 [] k = "o/b" -> 2 [] OTHER -> 1

\* The snapshot of repository k taken when it had s stars.
Snapshot(k, s) ==
  [name_with_owner |-> k, stars |-> s, forks |-> ForksOf(k),
   watchers |-> WatchersOf(k), updated_at |-> FirstSeen(k) + s]

Records == {Snapshot(k, s) : k \in Keys, s \in Stars}

Strategies == {"lowest_stars", "oldest", "lowest_activity"}

\* candidate lists of length 0..MaxCands
CandLists == UNION {[1..n -> Records] : n \in 0..MaxCands}

(***************************************************************************)
(* Python list and dict helpers.                                           *)
(***************************************************************************)
\* dict: a sequence of <<key, value>> pairs in insertion order, keys distinct
DictKeys(d) == {d[i][1] : i \in 1..Len(d)}
DictHas(d, k) == k \in DictKeys(d)
DictGet(d, k) == LET i == CHOOSE j \in 1..Len(d) : d[j][1] = k IN d[i][2]
\* d[k] = v: an existing key keeps its position, a new key goes last
DictSet(d, k, v) ==
  IF DictHas(d, k)
  THEN [i \in 1..Len(d) |-> IF d[i][1] = k THEN <<k, v>> ELSE d[i]]
  ELSE Append(d, <<k, v>>)
\* del d[k]
DictDel(d, k) == SelectSeq(d, LAMBDA p : p[1] # k)
\* list(d.values())
DictValues(d) == [i \in 1..Len(d) |-> d[i][2]]
\* {p["name_with_owner"]: p for p in projects}
RECURSIVE DictFromList(_)
DictFromList(l) ==
  IF l = <<>> THEN <<>>
  ELSE LET n == Len(l)
       IN DictSet(DictFromList(SubSeq(l, 1, n - 1)), l[n].name_with_owner, l[n])

\* list.remove(x): drops the first element equal to x
ListRemove(l, x) ==
  LET i == CHOOSE j \in 1..Len(l) : l[j] = x /\ \A h \in 1..(j - 1) : l[h] # x
  IN SubSeq(l, 1, i - 1) \o SubSeq(l, i + 1, Len(l))

\* min(l, key=Key): the first element of l with the least key
MinBy(l, Key(_)) ==
  LET i == CHOOSE j \in 1..Len(l) :
             /\ \A h \in 1..Len(l) : Key(l[j]) <= Key(l[h])
             /\ \A h \in 1..(j - 1) : Key(l[h]) > Key(l[j])
  IN l[i]

\* l.sort(key=stars, reverse=True): stable, equal keys keep their order
\* a list left in the order it is in
KeepOrder(l) == l

RECURSIVE SortByStarsDesc(_)
SortByStarsDesc(l) ==
  IF l = <<>> THEN <<>>
  ELSE LET n == Len(l)
           s == SortByStarsDesc(SubSeq(l, 1, n - 1))
           x == l[n]
           \* x goes after every element with at least as many stars
           p == Cardinality({i \in 1..Len(s) : s[i].stars >= x.stars})
       IN SubSeq(s, 1, p) \o <<x>> \o SubSeq(s, p + 1, Len(s))

(***************************************************************************)
(* The search result of the Repository Data Source: a sequence of pages,   *)
(* given by their sizes.  Items are numbered 1..SourceTotal in result      *)
(* order; the end cursor of page i is modelled by the number i.            *)
(***************************************************************************)
Sources == UNION {[1..n -> 1..PageSize] : n \in 0..MaxPages}

RECURSIVE SumSizes(_, _)
SumSizes(src, n) == IF n = 0 THEN 0 ELSE SumSizes(src, n - 1) + src[n]

\* repositoryCount
SourceTotal(src) == SumSizes(src, Len(src))

\* the page a request with this cursor is answered with
PageIndex(cur) == IF cur = None THEN 1 ELSE cur[1] + 1

\* search_repositories(query, cursor): edges, pageInfo.endCursor, pageInfo.hasNextPage
SearchPage(src, cur) ==
  LET i == PageIndex(cur) IN
  IF i > Len(src)
  THEN [edges |-> <<>>, endCursor |-> None, hasNextPage |-> FALSE]
  ELSE [edges |-> [j \in 1..src[i] |-> SumSizes(src, i - 1) + j],
        endCursor |-> Some(i),
        hasNextPage |-> i < Len(src)]

\* Python truthiness of an Optional[int]
Truthy(x) == x # None /\ x[1] # 0

TaskId == "seattle_popular_repos"
\* a second task, for what the store keeps apart
OtherTaskId == "seattle_python_repos"
TaskIds == {TaskId, OtherTaskId}
Query == "location:seattle stars:>100"

\* max_results: None, or a number
MaxResultsArgs == {None} \cup {Some(n) : n \in 1..MaxResults}

(***************************************************************************)
(* State.                                                                  *)
(***************************************************************************)
VARIABLES
  existing_projects,  \* IncrementalProjectCollector.existing_projects (list)
  existing_repos,     \* IncrementalProjectCollector.existing_repos (dict)
  data_file,          \* content of data_file on disk, or NoFile
  checkpoints,        \* checkpoint file of each task: None, or its JSON object
  checkpoint_interval,\* IncrementalCollector.checkpoint_interval
  source,             \* the search result the data source serves to the run
  pc,                 \* where the collection process is
  max_results,        \* collect_with_resume: max_results
  start_cursor,       \* collect_with_resume: start_cursor
  start_count,        \* collect_with_resume: start_count
  fetch_max,          \* fetch_all_repositories: max_results
  cursor,             \* fetch_all_repositories: cursor
  total_fetched,      \* fetch_all_repositories: total_fetched
  all_repos,          \* fetch_all_repositories: all_repos
  requests,           \* cursors of the batches the loop asked for, in order
  saves,              \* the checkpoints the run has saved, in order
  outcome,            \* how the loop of fetch_all_repositories ended
  fetch_error,        \* why the last request got no result; "none" when it got one
  crashes,            \* times the process was killed or died of an exception
  interrupted,        \* the run the last kill interrupted, or None
  live,               \* per task: the last save_checkpoint not yet cleared, or None
  loaded,             \* the last load_checkpoint call and what it gave, or None
  last_call,          \* the add_new_projects call just made on a loaded pool, or None
  now,                \* datetime.now(), in days
  last_refresh,       \* the refresh_stale_projects call just made, or None
  backup_file,        \* content of backup_file on disk, or NoFile
  procs,              \* per worker process: where it is in _save_projects, its pool
  generations,        \* the pools the data file has held complete
  pager               \* the call of a page-numbered fetcher: its locals and requests

poolVars == <<existing_projects, existing_repos, data_file>>
runVars == <<max_results, start_cursor, start_count, fetch_max, cursor,
             total_fetched, all_repos, requests, saves, outcome, fetch_error>>
collectVars == <<checkpoints, checkpoint_interval, source, pc, runVars,
                 crashes, interrupted>>
storeVars == <<live, loaded>>
refreshVars == <<now, last_refresh>>
saveVars == <<backup_file, procs, generations>>
pageVars == <<pager>>
auxVars == <<storeVars, last_call, refreshVars, saveVars, pageVars>>
vars == <<poolVars, collectVars, auxVars>>

ZeroStats == [added |-> 0, replaced |-> 0, skipped |-> 0, updated |-> 0]

(***************************************************************************)
(* _should_replace / _find_project_to_replace                              *)
(***************************************************************************)
StarsKey(p) == p.stars
UpdatedKey(p) == p.updated_at
activity_score(p) == p.stars + p.forks + p.watchers

_should_replace(projects, new_project, strategy) ==
  CASE strategy = "lowest_stars" ->
         new_project.stars > MinBy(projects, StarsKey).stars
    [] strategy = "oldest" ->
         new_project.updated_at > MinBy(projects, UpdatedKey).updated_at
    [] strategy = "lowest_activity" ->
         activity_score(new_project) > activity_score(MinBy(projects, activity_score))
    [] OTHER -> FALSE

\* A choice of the record to replace that takes the head of the list.
_find_first_project(projects, strategy) ==
  IF projects = <<>> THEN None ELSE Some(Head(projects))

_find_project_to_replace(projects, strategy) ==
  IF projects = <<>> THEN None
  ELSE CASE strategy = "lowest_stars" -> Some(MinBy(projects, StarsKey))
         [] strategy = "oldest" -> Some(MinBy(projects, UpdatedKey))
         [] strategy = "lowest_activity" -> Some(MinBy(projects, activity_score))
         [] OTHER -> None

(***************************************************************************)
(* add_new_projects: one iteration of the loop over new_projects.          *)
(* st = [projects, repos, stats] are existing_projects, existing_repos     *)
(* and the stats dictionary.                                               *)
(***************************************************************************)
Bump(s, f) == [s EXCEPT ![f] = @ + 1]

\* The loop body without its membership test: every candidate is taken as new.
AddOneNoLookup(st, new_proj, max_total, strategy) ==
  IF Len(st.projects) < max_total
  THEN [projects |-> Append(st.projects, new_proj),
        repos |-> DictSet(st.repos, new_proj.name_with_owner, new_proj),
        stats |-> Bump(st.stats, "added")]
  ELSE [st EXCEPT !.stats = Bump(st.stats, "skipped")]

AddOne(st, new_proj, max_total, strategy) ==
  LET proj_name == new_proj.name_with_owner IN
  IF DictHas(st.repos, proj_name)
  THEN IF new_proj.stars # DictGet(st.repos, proj_name).stars
       THEN [st EXCEPT !.repos = DictSet(st.repos, proj_name, new_proj),
                       !.stats = Bump(st.stats, "updated")]
       ELSE [st EXCEPT !.stats = Bump(st.stats, "skipped")]
  ELSE IF Len(st.projects) < max_total
  THEN [projects |-> Append(st.projects, new_proj),
        repos |-> DictSet(st.repos, proj_name, new_proj),
        stats |-> Bump(st.stats, "added")]
  ELSE IF _should_replace(st.projects, new_proj, strategy)
  THEN LET to_replace == _find_project_to_replace(st.projects, strategy) IN
       IF to_replace # None
       THEN [projects |-> Append(ListRemove(st.projects, to_replace[1]), new_proj),
             repos |-> DictSet(DictDel(st.repos, to_replace[1].name_with_owner),
                               proj_name, new_proj),
             stats |-> Bump(st.stats, "replaced")]
       ELSE st
  ELSE [st EXCEPT !.stats = Bump(st.stats, "skipped")]

RECURSIVE AddAll(_, _, _, _)
AddAll(st, new_projects, max_total, strategy) ==
  IF new_projects = <<>> THEN st
  ELSE AddAll(AddOne(st, Head(new_projects), max_total, strategy),
              Tail(new_projects), max_total, strategy)

\* The handler up to its return value: the loop, then the sort.
add_new_projects(projects, repos, new_projects, max_total, strategy) ==
  LET st == AddAll([projects |-> projects, repos |-> repos, stats |-> ZeroStats],
                   new_projects, max_total, strategy)
  IN [st EXCEPT !.projects = SortByStarsDesc(st.projects)]

(***************************************************************************)
(* Actions of the pool.                                                    *)
(***************************************************************************)
\* _save_projects(projects): json.dump of the list into data_file.  The
\* backup and metadata files, which the program never reads, are left to the
\* specifications of the save itself (SpecSave, SpecWorkers).
SaveProjects(projects) ==
  data_file' = File(projects)

AddNewProjects ==
  /\ \E new_projects \in CandLists, max_total \in 1..MaxTotal, strategy \in Strategies :
       LET r == add_new_projects(existing_projects, existing_repos,
                                 new_projects, max_total, strategy)
       IN /\ existing_projects' = r.projects
          /\ existing_repos' = r.repos
          /\ SaveProjects(r.projects)
  /\ UNCHANGED <<collectVars, auxVars>>

\* A new process: __init__ reads the data file and builds the index from it.
LoadExistingProjects ==
  /\ existing_projects' = IF data_file.exists THEN data_file.data ELSE <<>>
  /\ existing_repos' = DictFromList(existing_projects')
  /\ UNCHANGED <<data_file, collectVars, auxVars>>

(***************************************************************************)
(* One add_new_projects call with one candidate, on a pool a new process   *)
(* has loaded from the data file an earlier run wrote.  Star counts are    *)
(* the ones of the documented example.                                     *)
(***************************************************************************)
ScenarioKeys == Keys \cup {"o/d"}
ScenarioStars == {2, 3, 5, 10}
ScenarioRecords == {Snapshot(k, s) : k \in ScenarioKeys, s \in ScenarioStars}

\* what add_new_projects leaves in the file: sorted by stars, one record per key
IsSavedPool(l) ==
  /\ \A i, j \in 1..Len(l) : i < j => l[i].stars >= l[j].stars
  /\ \A i, j \in 1..Len(l) : l[i].name_with_owner = l[j].name_with_owner => i = j

ScenarioPools ==
  UNION {{l \in [1..n -> ScenarioRecords] : IsSavedPool(l)} : n \in 0..MaxTotal}

AddCandidate ==
  /\ last_call = None
  /\ \E cand \in ScenarioRecords, max_total \in 1..MaxTotal, strategy \in Strategies :
       LET r == add_new_projects(existing_projects, existing_repos,
                                 <<cand>>, max_total, strategy)
       IN /\ existing_projects' = r.projects
          /\ existing_repos' = r.repos
          /\ SaveProjects(r.projects)
          /\ last_call' = Some([new_projects |-> <<cand>>, max_total |-> max_total,
                                strategy |-> strategy, before |-> existing_projects,
                                stats |-> r.stats])
  /\ UNCHANGED <<collectVars, storeVars, refreshVars, saveVars, pageVars>>

(***************************************************************************)
(* refresh_stale_projects and update_project_stats.  Time is counted in    *)
(* days.  A record carries last_stats_update, None when the dictionary has *)
(* no such key (project.get("last_stats_update")).                         *)
(***************************************************************************)
RefreshKeys == {"o/a", "o/b"}
Stamps == {None} \cup {Some(d) : d \in 0..MaxDay}

Stamped(k, s, u) ==
  [name_with_owner |-> k, stars |-> s, forks |-> ForksOf(k),
   watchers |-> WatchersOf(k), updated_at |-> FirstSeen(k) + s,
   last_stats_update |-> u]

RefreshRecords == {Stamped(k, s, u) : k \in RefreshKeys, s \in Stars, u \in Stamps}

\* What GET /repos/{project_name} is answered with: 200 and the repository
\* (its full_name and stargazers_count), 404, 403, or a failure that raises
\* (timeout, 5xx through raise_for_status).
Responses ==
  [kind : {"ok"}, full_name : RefreshKeys, stars : Stars]
  \cup {[kind |-> "not_found"], [kind |-> "rate_limit"], [kind |-> "error"]}

\* update_project_stats: the updated project, or None
update_project_stats(response) ==
  IF response.kind = "ok"
  THEN Some(Stamped(response.full_name, response.stars, Some(now)))
  ELSE None

\* A staleness test that also takes a record updated exactly at the cutoff.
is_stale_at_cutoff(project, days_old) ==
  \/ project.last_stats_update = None
  \/ project.last_stats_update[1] <= now - days_old

\* refresh_stale_projects: "if not last_update" / "update_date < cutoff_date"
is_stale(project, days_old) ==
  \/ project.last_stats_update = None
  \/ project.last_stats_update[1] < now - days_old

StaleProjects(projects, days_old) ==
  SelectSeq(projects, LAMBDA project : is_stale(project, days_old))

\* The loop over stale_projects: st = [repos, updated_count]; responses[i] is
\* the answer to the request made for stale_projects[i].
RECURSIVE RefreshLoop(_, _, _)
RefreshLoop(st, stale_projects, responses) ==
  IF stale_projects = <<>> THEN st
  ELSE LET project_name == Head(stale_projects).name_with_owner
           updated == update_project_stats(Head(responses))
       IN RefreshLoop(IF updated # None
                      THEN [repos |-> DictSet(st.repos, project_name, updated[1]),
                            updated_count |-> st.updated_count + 1]
                      ELSE st,
                      Tail(stale_projects), Tail(responses))

RefreshStaleProjects ==
  /\ last_refresh = None
  /\ \E days_old \in 0..MaxDay :
       LET stale_projects == StaleProjects(existing_projects, days_old) IN
       \E responses \in [1..Len(stale_projects) -> Responses] :
         LET st == RefreshLoop([repos |-> existing_repos, updated_count |-> 0],
                               stale_projects, responses)
             projects == SortByStarsDesc(DictValues(st.repos))
         IN /\ IF stale_projects = <<>>
               THEN UNCHANGED poolVars
               ELSE /\ existing_repos' = st.repos
                    /\ existing_projects' = projects
                    /\ SaveProjects(projects)
            /\ last_refresh' =
                 Some([days_old |-> days_old,
                       before |-> existing_projects,
                       requests |-> [i \in 1..Len(stale_projects) |->
                                       stale_projects[i].name_with_owner],
                       responses |-> responses,
                       returned |-> st.updated_count])
  /\ UNCHANGED <<collectVars, storeVars, last_call, now, saveVars, pageVars>>

\* One add_new_projects call before the refresh, with one candidate as
\* collect_with_smart_update builds it (last_stats_update is now) or as the
\* other collectors build it (no last_stats_update).
AddStampedProject ==
  /\ last_call = None
  /\ last_refresh = None
  /\ \E k \in RefreshKeys, s \in Stars, u \in {None, Some(now)},
        max_total \in 1..MaxTotal, strategy \in Strategies :
       LET r == add_new_projects(existing_projects, existing_repos,
                                 <<Stamped(k, s, u)>>, max_total, strategy)
       IN /\ existing_projects' = r.projects
          /\ existing_repos' = r.repos
          /\ SaveProjects(r.projects)
          /\ last_call' = Some([stats |-> r.stats])
  /\ UNCHANGED <<collectVars, storeVars, refreshVars, saveVars, pageVars>>

\* manage_projects --collect-new: collect_with_smart_update(target_count,
\* refresh_days = 0, collect_new = True).  Step 1 is refresh_stale_projects
\* with days_old = refresh_days; step 2 collects the repositories `found` of
\* Seattle users, drops the ones whose name is in the index, stops at `needed`
\* and hands the rest to add_new_projects.
CollectNew ==
  /\ last_call = None
  /\ last_refresh = None
  /\ \E target_count \in 1..MaxTotal,
        found \in {<<>>} \cup {<<Stamped(k, s, Some(now))>> : k \in RefreshKeys, s \in Stars} :
       LET refresh_days == 0
           stale_projects == StaleProjects(existing_projects, refresh_days)
       IN
       \E responses \in [1..Len(stale_projects) -> Responses] :
         LET st == RefreshLoop([repos |-> existing_repos, updated_count |-> 0],
                               stale_projects, responses)
             refreshed == IF stale_projects = <<>>
                          THEN [projects |-> existing_projects, repos |-> existing_repos,
                                file |-> data_file]
                          ELSE [projects |-> SortByStarsDesc(DictValues(st.repos)),
                                repos |-> st.repos,
                                file |-> File(SortByStarsDesc(DictValues(st.repos)))]
             needed == target_count - Len(refreshed.projects)
             new_projects == IF needed > 0
                             THEN SelectSeq(found, LAMBDA repo :
                                    ~DictHas(refreshed.repos, repo.name_with_owner))
                             ELSE <<>>
             r == add_new_projects(refreshed.projects, refreshed.repos, new_projects,
                                   target_count, "lowest_stars")
         IN /\ IF new_projects # <<>>
               THEN /\ existing_projects' = r.projects
                    /\ existing_repos' = r.repos
                    /\ SaveProjects(r.projects)
               ELSE /\ existing_projects' = refreshed.projects
                    /\ existing_repos' = refreshed.repos
                    /\ data_file' = refreshed.file
            /\ last_call' =
                 Some([refresh_days |-> refresh_days,
                       requests |-> [i \in 1..Len(stale_projects) |->
                                       stale_projects[i].name_with_owner]])
  /\ UNCHANGED <<collectVars, storeVars, refreshVars, saveVars, pageVars>>

(***************************************************************************)
(* _save_projects step by step, in worker processes that share data_file   *)
(* and backup_file.  A worker loads the pool, makes add_new_projects calls *)
(* and saves; the save is cut where it reads or writes a file.             *)
(***************************************************************************)
Workers == {"w1", "w2"}
SaveRecords == {Snapshot(k, 0) : k \in RefreshKeys}

Down == [pc |-> "down", projects |-> <<>>, old_data |-> NoFile, loaded_corrupt |-> FALSE]

\* __init__: _load_existing_projects returns the parsed list, or [] when the
\* file is missing and also when reading or parsing it raised
StartWorker(w) ==
  /\ procs[w].pc = "down"
  /\ procs' = [procs EXCEPT ![w] =
                 [pc |-> "ready",
                  projects |-> IF IsComplete(data_file) THEN data_file.data ELSE <<>>,
                  old_data |-> NoFile,
                  loaded_corrupt |-> data_file.exists /\ ~IsComplete(data_file)]]
  /\ UNCHANGED <<poolVars, collectVars, storeVars, last_call, refreshVars,
                 backup_file, generations, pageVars>>

\* add_new_projects up to the first file access of _save_projects:
\* "if backup and os.path.exists(self.data_file)", then old_data = f.read()
BeginSave(w) ==
  /\ procs[w].pc = "ready"
  /\ \E new_projects \in {<<>>} \cup {<<c>> : c \in SaveRecords},
        max_total \in 1..MaxTotal, strategy \in Strategies :
       LET r == add_new_projects(procs[w].projects, DictFromList(procs[w].projects),
                                 new_projects, max_total, strategy)
       IN procs' = [procs EXCEPT ![w] =
                      [@ EXCEPT !.projects = r.projects,
                                !.pc = IF data_file.exists THEN "backup" ELSE "open",
                                !.old_data = data_file]]
  /\ UNCHANGED <<poolVars, collectVars, storeVars, last_call, refreshVars,
                 backup_file, generations, pageVars>>

\* open(self.backup_file, 'w'); f.write(old_data)
WriteBackup(w) ==
  /\ procs[w].pc = "backup"
  /\ backup_file' = procs[w].old_data
  /\ procs' = [procs EXCEPT ![w] = [@ EXCEPT !.pc = "open", !.old_data = NoFile]]
  /\ UNCHANGED <<poolVars, collectVars, storeVars, last_call, refreshVars, generations, pageVars>>

\* open(self.data_file, 'w'): the file is truncated
OpenDataFile(w) ==
  /\ procs[w].pc = "open"
  /\ data_file' = Partial(<<>>)
  /\ procs' = [procs EXCEPT ![w] = [@ EXCEPT !.pc = "dump"]]
  /\ UNCHANGED <<existing_projects, existing_repos, collectVars, storeVars, last_call,
                 refreshVars, backup_file, generations, pageVars>>

\* What the file holds after this writer wrote `projects` from offset 0 and
\* closed: its document, followed by what another writer put beyond its end
\* since this writer opened the file.
Written(file, projects) ==
  IF Len(file.data) > Len(projects)
  THEN Partial(projects \o SubSeq(file.data, Len(projects) + 1, Len(file.data)))
  ELSE File(projects)

\* json.dump(projects, f) and close
DumpDataFile(w) ==
  /\ procs[w].pc = "dump"
  /\ data_file' = Written(data_file, procs[w].projects)
  /\ generations' = IF IsComplete(data_file')
                     THEN generations \cup {data_file'.data} ELSE generations
  /\ procs' = [procs EXCEPT ![w] = [@ EXCEPT !.pc = "ready"]]
  /\ UNCHANGED <<existing_projects, existing_repos, collectVars, storeVars, last_call,
                 refreshVars, backup_file, pageVars>>

\* The process dies in the middle of the write of the data file.
CrashInWrite(w) ==
  /\ procs[w].pc = "dump"
  /\ procs' = [procs EXCEPT ![w] = Down]
  /\ UNCHANGED <<poolVars, collectVars, storeVars, last_call, refreshVars,
                 backup_file, generations, pageVars>>

(***************************************************************************)
(* SeattleProjectCollector: the page-numbered fetchers search_seattle_users*)
(* and get_user_repositories.  The listing served is a sequence of pages   *)
(* as for the search above; page p of it holds the items after the first   *)
(* p - 1 pages, and a page past the end is empty.  The clock `now` is      *)
(* time.time() here.                                                       *)
(***************************************************************************)
Fetchers == {"search_seattle_users", "get_user_repositories"}

\* per_page (100 in the code, the largest page of the model here)
per_page == PageSize
\* "GitHub search API returns max 1000 results": min(10, ...)
SearchPageCap == 10
\* "wait_time = reset_time - time.time() + 5"
Margin == 5

Min(a, b) == IF a <= b THEN a ELSE b

\* max_pages = min(10, (max_users + per_page - 1) // per_page)
max_pages(max_users) == Min(SearchPageCap, (max_users + per_page - 1) \div per_page)

NoPager == [pc |-> "idle"]

\* the items of page `page` of the listing
PageItems(src, page) ==
  IF page > Len(src) THEN <<>>
  ELSE [j \in 1..src[page] |-> SumSizes(src, page - 1) + j]

\* What a GET is answered with: 200 and the page, 403 with X-RateLimit-Reset
\* (0: no such header), 404, or anything that raises (network, 5xx, 4xx).
PageResponses ==
  {[kind |-> "ok"], [kind |-> "not_found"], [kind |-> "error"]}
  \cup {[kind |-> "rate_limit", reset |-> r] : r \in 0..MaxReset}

\* "if reset_time: wait_time = reset_time - time.time() + 5; if wait_time > 0":
\* the time slept, 0 when the loop does not sleep
wait_time(response, clock) ==
  IF response.kind = "rate_limit" /\ response.reset # 0
     /\ response.reset - clock + Margin > 0
  THEN response.reset - clock + Margin
  ELSE 0

\* a wait after which the loop goes on to the next page
sleep_and_skip(st, wait) == [st EXCEPT !.page = @ + 1]

\* "time.sleep(wait_time); continue": the locals are as they were
sleep_and_continue(st, wait) == st

\* while page <= max_pages and len(users) < max_users / while True
LoopCondition(st) ==
  st.fn = "search_seattle_users" =>
    (st.page <= max_pages(st.max_users) /\ Len(st.items) < st.max_users)

\* One turn of the loop, from the request to the next test of the loop
\* condition: st holds the locals, `response` is the answer.
page_turn(st, response) ==
  LET wait == wait_time(response, st.clock)
      items == PageItems(st.src, st.page)
      turned ==
        IF wait > 0
        THEN [sleep_and_continue(st, wait) EXCEPT !.clock = @ + wait]
        ELSE IF response.kind # "ok"
        \* 404 in get_user_repositories: break; else raise_for_status raises
        \* and "except Exception" breaks
        THEN [st EXCEPT !.pc = "returned"]
        ELSE IF items = <<>>
        THEN [st EXCEPT !.pc = "returned"]
        ELSE [st EXCEPT !.items = @ \o items, !.page = @ + 1]
  IN IF turned.pc = "loop" /\ ~LoopCondition(turned)
     THEN [turned EXCEPT !.pc = "returned"]
     ELSE turned

\* return users[:max_users] / return repos
Returned(st) ==
  IF st.fn = "search_seattle_users"
  THEN SubSeq(st.items, 1, Min(st.max_users, Len(st.items)))
  ELSE st.items

\* A call of one of the two fetchers, up to its first request.
StartPager ==
  /\ pager.pc = "idle"
  /\ \E fn \in Fetchers, src \in Sources, max_users \in 1..MaxUsers :
       /\ fn = "get_user_repositories" => max_users = 1
       /\ pager' = [pc |-> "loop", fn |-> fn, src |-> src, max_users |-> max_users,
                    page |-> 1, items |-> <<>>, log |-> <<>>]
  /\ UNCHANGED <<poolVars, collectVars, storeVars, last_call, refreshVars, saveVars>>

\* One request of the loop and what the loop does with the answer.
PageRequest ==
  /\ pager.pc = "loop"
  /\ \E response \in PageResponses :
       LET st == [pc |-> pager.pc, fn |-> pager.fn, src |-> pager.src,
                  max_users |-> pager.max_users, page |-> pager.page,
                  items |-> pager.items, clock |-> now]
           after == page_turn(st, response)
       IN /\ pager' = [pager EXCEPT
                         !.pc = after.pc, !.page = after.page, !.items = after.items,
                         !.log = Append(@, [page |-> pager.page, response |-> response,
                                            at |-> now, got |-> Len(after.items) - Len(pager.items)])]
          /\ now' = after.clock
  /\ UNCHANGED <<poolVars, collectVars, storeVars, last_call, last_refresh, saveVars>>

(***************************************************************************)
(* CursorManager                                                           *)
(***************************************************************************)
\* A checkpoint file that was not left by save_checkpoint: bytes json.load
\* rejects, a file open() or read() fails on, or a JSON object that has no
\* "progress" member.
NotJson == [damaged |-> "not_json"]
Unreadable == [damaged |-> "unreadable"]
NoProgress(cur) == [cursor |-> cur]

\* json.load(f) returns: the except clause handles JSONDecodeError and IOError
IsJson(doc) == "damaged" \notin DOMAIN doc

\* checkpoint['progress'] in the "Resume from" line, inside the try, is a
\* KeyError when the member is missing; the except clause does not name it.
load_checkpoint_raises(cps, task_id) ==
  /\ cps[task_id] # None
  /\ IsJson(cps[task_id][1])
  /\ "progress" \notin DOMAIN cps[task_id][1]

\* what load_checkpoint returns when it returns
load_checkpoint(cps, task_id) ==
  IF cps[task_id] = None THEN None
  ELSE IF ~IsJson(cps[task_id][1]) THEN None
  ELSE cps[task_id]

\* A store that keeps the first checkpoint of a task and drops later saves.
save_checkpoint_first_wins(cps, task_id, cur, progress) ==
  IF cps[task_id] # None THEN cps
  ELSE [cps EXCEPT ![task_id] = Some([cursor |-> cur, progress |-> progress])]

\* open(checkpoint_file, "w") and json.dump: the file of the task is replaced
save_checkpoint(cps, task_id, cur, progress) ==
  [cps EXCEPT ![task_id] = Some([cursor |-> cur, progress |-> progress])]

clear_checkpoint(cps, task_id) == [cps EXCEPT ![task_id] = None]

(***************************************************************************)
(* The checkpoint store used directly: save, clear and load calls for any  *)
(* task, and files damaged from outside the program.                       *)
(***************************************************************************)
Cursors == {Some(i) : i \in 1..MaxPages}
Progresses == [count : 0..MaxResults, query : {Query}]
DamagedFiles == {NotJson, Unreadable} \cup {NoProgress(c) : c \in Cursors}

collectRest == <<checkpoint_interval, source, pc, runVars, crashes, interrupted>>

SaveCheckpoint ==
  \E t \in TaskIds, cur \in Cursors, progress \in Progresses :
    /\ checkpoints' = save_checkpoint(checkpoints, t, cur, progress)
    /\ live' = [live EXCEPT ![t] =
                  Some([cursor |-> cur, progress |-> progress,
                        overwrote |-> /\ live[t] # None
                                      /\ <<live[t][1].cursor, live[t][1].progress>>
                                           # <<cur, progress>>])]
    /\ loaded' = None
    /\ UNCHANGED <<poolVars, collectRest, last_call, refreshVars, saveVars, pageVars>>

ClearCheckpoint ==
  \E t \in TaskIds :
    /\ checkpoints' = clear_checkpoint(checkpoints, t)
    /\ live' = [live EXCEPT ![t] = None]
    /\ loaded' = None
    /\ UNCHANGED <<poolVars, collectRest, last_call, refreshVars, saveVars, pageVars>>

\* The file of a task is damaged from outside the program.
DamageCheckpoint ==
  \E t \in TaskIds, d \in DamagedFiles :
    /\ checkpoints' = [checkpoints EXCEPT ![t] = Some(d)]
    /\ loaded' = None
    /\ UNCHANGED <<poolVars, collectRest, live, last_call, refreshVars, saveVars, pageVars>>

LoadCheckpoint ==
  \E t \in TaskIds :
    /\ loaded' = Some([task_id |-> t,
                       raised |-> load_checkpoint_raises(checkpoints, t),
                       value |-> IF load_checkpoint_raises(checkpoints, t) THEN None
                                 ELSE load_checkpoint(checkpoints, t)])
    /\ UNCHANGED <<poolVars, checkpoints, collectRest, live, last_call, refreshVars, saveVars, pageVars>>

(***************************************************************************)
(* GitHubGraphQLClient._execute_query and search_repositories.  A request  *)
(* is answered with the page, or fails: with a rate limit (HTTP 403/429,   *)
(* or a RATE_LIMITED entry in "errors"), with a transient fault (network,  *)
(* timeout, 5xx), or with a permanent rejection (4xx, or "errors" for the  *)
(* query).  A rejection is an answer with "errors", which carries "data"   *)
(* too; the other failures are HTTP or network faults and carry none.      *)
(***************************************************************************)
FailureKinds == {"rate_limited", "transient", "rejected"}

Answers(src, cur) ==
  {[kind |-> "ok", data |-> Some(SearchPage(src, cur))]}
  \cup {[kind |-> k, data |-> None] : k \in {"rate_limited", "transient"}}
  \cup {[kind |-> "rejected", data |-> Some(SearchPage(src, cur))]}

\* an _execute_query that returns the data of an answer that carries errors
_execute_query_ignoring_errors(answer) == answer.data

\* _execute_query: "if 'errors' in result: return None", "except
\* RequestException: return None", else the result
_execute_query(answer) == IF answer.kind = "ok" THEN answer.data ELSE None

\* search_repositories: result["data"]["search"], or None
search_repositories(answer) == _execute_query(answer)

(***************************************************************************)
(* IncrementalCollector.collect_with_resume, driving                       *)
(* GitHubGraphQLClient.fetch_all_repositories.  The run is cut at its      *)
(* requests to the data source, where it can fail and where the process    *)
(* can be killed.                                                          *)
(***************************************************************************)
\* checkpoint_callback(cursor, count), as collect_with_resume defines it: the
\* arguments of the save_checkpoint call it makes, or None when it makes none
checkpoint_callback(cur, count) ==
  LET total_count == start_count + count IN
  IF total_count % checkpoint_interval = 0
  THEN Some([cursor |-> cur, progress |-> [count |-> total_count, query |-> Query]])
  ELSE None

\* Entry: load the checkpoint, then fetch_all_repositories up to its first
\* request ("Get total count first"), which succeeds or fails.
StartCollect ==
  /\ pc \in {"idle", "returned", "raised"}
  /\ \E m \in MaxResultsArgs, force_restart \in BOOLEAN, src \in Sources :
     \E answer \in Answers(src, None) :
       LET initial_result == search_repositories(answer)
           checkpoint == IF force_restart THEN None
                         ELSE load_checkpoint(checkpoints, TaskId)
           count == IF checkpoint # None THEN checkpoint[1].progress.count ELSE 0
       IN /\ source' = src
          /\ max_results' = m
          /\ start_cursor' = IF checkpoint # None THEN checkpoint[1].cursor ELSE None
          /\ start_count' = count
          /\ fetch_max' = IF Truthy(m) THEN Some(m[1] - count) ELSE None
          /\ cursor' = None
          /\ total_fetched' = 0
          /\ all_repos' = <<>>
          /\ requests' = <<>>
          /\ saves' = <<>>
          /\ IF initial_result # None
             THEN pc' = "fetching" /\ outcome' = "none" /\ fetch_error' = "none"
             ELSE pc' = "fetched" /\ outcome' = "init_failed" /\ fetch_error' = answer.kind
  /\ UNCHANGED <<auxVars, poolVars, checkpoints, checkpoint_interval, crashes, interrupted>>

\* One turn of the while loop whose request is answered.
FetchPage ==
  /\ pc = "fetching"
  /\ \E answer \in Answers(source, cursor), storage_ok \in BOOLEAN :
     search_repositories(answer) # None /\
     LET result == search_repositories(answer)[1]
         fetched == total_fetched + Len(result.edges)
         more == result.hasNextPage
         reached == Truthy(fetch_max) /\ fetched >= fetch_max[1]
         \* "if checkpoint_callback and cursor: checkpoint_callback(cursor, total_fetched)"
         save == IF result.endCursor # None
                 THEN checkpoint_callback(result.endCursor, fetched)
                 ELSE None
     IN /\ requests' = Append(requests, cursor)
        /\ all_repos' = all_repos \o result.edges
        /\ total_fetched' = fetched
        /\ cursor' = result.endCursor
        /\ fetch_error' = IF answer.kind = "ok" THEN "none" ELSE answer.kind
        /\ storage_ok \/ (save # None /\ crashes < MaxCrashes)
        /\ IF storage_ok
           THEN /\ checkpoints' = IF save # None
                                  THEN save_checkpoint(checkpoints, TaskId,
                                                       save[1].cursor, save[1].progress)
                                  ELSE checkpoints
                /\ saves' = IF save # None THEN Append(saves, save[1]) ELSE saves
                /\ outcome' = IF ~more THEN "end" ELSE IF reached THEN "max" ELSE "none"
                /\ pc' = IF ~more \/ reached THEN "fetched" ELSE "fetching"
                /\ UNCHANGED crashes
           \* open(checkpoint_file, "w") raises: nothing between save_checkpoint
           \* and the caller of collect_with_resume catches it: the process dies
           ELSE /\ UNCHANGED <<checkpoints, saves>>
                /\ outcome' = "save_failed"
                /\ pc' = "raised"
                /\ crashes' = crashes + 1
  /\ UNCHANGED <<auxVars, poolVars, checkpoint_interval, source, max_results, start_cursor,
                 start_count, fetch_max, interrupted>>

\* One turn of the while loop whose request fails: "Failed to fetch batch, stopping".
FetchPageFails ==
  /\ pc = "fetching"
  /\ \E answer \in Answers(source, cursor) :
       /\ search_repositories(answer) = None
       /\ fetch_error' = answer.kind
  /\ requests' = Append(requests, cursor)
  /\ outcome' = "failed"
  /\ pc' = "fetched"
  /\ UNCHANGED <<auxVars, poolVars, checkpoints, checkpoint_interval, source, max_results,
                 start_cursor, start_count, fetch_max, cursor, total_fetched,
                 all_repos, saves, crashes, interrupted>>

\* fetch_all_repositories has returned repos: "Clear checkpoint on success", return.
ReturnCollect ==
  /\ pc = "fetched"
  /\ checkpoints' = IF all_repos # <<>> THEN clear_checkpoint(checkpoints, TaskId)
                    ELSE checkpoints
  /\ pc' = "returned"
  /\ UNCHANGED <<auxVars, poolVars, checkpoint_interval, source, runVars, crashes, interrupted>>

\* The process is killed during a run: only the checkpoint files survive.
Crash ==
  /\ pc \in {"fetching", "fetched"}
  /\ crashes < MaxCrashes
  /\ crashes' = crashes + 1
  /\ interrupted' = Some([max_results |-> max_results, start_count |-> start_count,
                          source |-> source, saves |-> saves])
  /\ pc' = "idle"
  /\ max_results' = None
  /\ start_cursor' = None
  /\ start_count' = 0
  /\ fetch_max' = None
  /\ cursor' = None
  /\ total_fetched' = 0
  /\ all_repos' = <<>>
  /\ requests' = <<>>
  /\ saves' = <<>>
  /\ outcome' = "none"
  /\ fetch_error' = "none"
  /\ UNCHANGED <<auxVars, poolVars, checkpoints, checkpoint_interval, source>>

(***************************************************************************)
(* Specifications.                                                         *)
(***************************************************************************)
\* __init__ with no data file: _load_existing_projects returns []
InitPool ==
  /\ existing_projects = <<>>
  /\ existing_repos = <<>>
  /\ data_file = NoFile

\* No checkpoint on disk, no run in progress.
InitRun ==
  /\ checkpoints = [t \in TaskIds |-> None]
  /\ source = <<>>
  /\ pc = "idle"
  /\ max_results = None
  /\ start_cursor = None
  /\ start_count = 0
  /\ fetch_max = None
  /\ cursor = None
  /\ total_fetched = 0
  /\ all_repos = <<>>
  /\ requests = <<>>
  /\ saves = <<>>
  /\ outcome = "none"
  /\ fetch_error = "none"
  /\ crashes = 0
  /\ interrupted = None

\* Nothing saved, nothing loaded.
InitStore ==
  /\ live = [t \in TaskIds |-> None]
  /\ loaded = None

InitAux ==
  /\ InitStore
  /\ last_call = None
  /\ last_refresh = None
  /\ backup_file = NoFile
  /\ procs = [w \in Workers |-> Down]
  /\ generations = {}
  /\ pager = NoPager

\* The pool manager alone (the collector is constructed and idle).
Init ==
  /\ InitPool
  /\ InitRun
  /\ InitAux
  /\ now = 0
  /\ checkpoint_interval = 1

Next ==
  \/ AddNewProjects
  \/ LoadExistingProjects

Spec == Init /\ [][Next]_vars

\* The checkpointed collector, for any checkpoint_interval.
InitCollect ==
  /\ InitPool
  /\ InitRun
  /\ InitAux
  /\ now = 0
  /\ checkpoint_interval \in 1..MaxInterval

NextCollect ==
  \/ StartCollect
  \/ FetchPage
  \/ FetchPageFails
  \/ ReturnCollect
  \/ Crash

SpecCollect == InitCollect /\ [][NextCollect]_vars

\* __init__ over a data file an earlier run wrote.
InitScenario ==
  /\ \E l \in ScenarioPools :
       /\ data_file = File(l)
       /\ existing_projects = l
       /\ existing_repos = DictFromList(l)
  /\ InitRun
  /\ InitAux
  /\ now = 0
  /\ checkpoint_interval = 1

NextScenario == AddCandidate

SpecScenario == InitScenario /\ [][NextScenario]_vars

\* One collect_with_resume call in a new process, no checkpoint on disk.
NextFetch ==
  \/ pc = "idle" /\ StartCollect
  \/ FetchPage
  \/ FetchPageFails
  \/ ReturnCollect

SpecFetch == InitCollect /\ [][NextFetch]_vars

\* One call of a page-numbered fetcher, at any time before the latest reset.
InitPages ==
  /\ InitPool
  /\ InitRun
  /\ InitAux
  /\ now \in 0..MaxReset
  /\ checkpoint_interval = 1

NextPages ==
  \/ StartPager
  \/ PageRequest

SpecPages == InitPages /\ [][NextPages]_vars

\* The pools of at most two records a saved data file can hold on day `day`.
RefreshPools(day) ==
  UNION {{l \in [1..n -> RefreshRecords] :
            /\ IsSavedPool(l)
            /\ \A i \in 1..n : l[i].last_stats_update # None
                                 => l[i].last_stats_update[1] <= day}
         : n \in 0..Cardinality(RefreshKeys)}

\* __init__ over a data file an earlier run wrote, on any day.
InitRefresh ==
  /\ now \in 0..MaxDay
  /\ \E l \in RefreshPools(now) :
       /\ data_file = File(l)
       /\ existing_projects = l
       /\ existing_repos = DictFromList(l)
  /\ InitRun
  /\ InitAux
  /\ checkpoint_interval = 1

NextRefresh ==
  \/ AddStampedProject
  \/ RefreshStaleProjects
  \/ CollectNew

SpecRefresh == InitRefresh /\ [][NextRefresh]_vars

\* One process that saves, dies in a write and is started again.
NextSave ==
  \/ StartWorker("w1")
  \/ BeginSave("w1")
  \/ WriteBackup("w1")
  \/ OpenDataFile("w1")
  \/ DumpDataFile("w1")
  \/ CrashInWrite("w1")

SpecSave == Init /\ [][NextSave]_vars

\* Two worker processes that save to the same data file; neither dies.
NextWorkers ==
  \E w \in Workers :
    \/ StartWorker(w)
    \/ BeginSave(w)
    \/ WriteBackup(w)
    \/ OpenDataFile(w)
    \/ DumpDataFile(w)

SpecWorkers == Init /\ [][NextWorkers]_vars

\* The checkpoint store under direct use.
NextStore ==
  \/ SaveCheckpoint
  \/ ClearCheckpoint
  \/ DamageCheckpoint
  \/ LoadCheckpoint

SpecStore == Init /\ [][NextStore]_vars

(***************************************************************************)
(* Properties of the pool.                                                 *)
(***************************************************************************)
Range(l) == {l[i] : i \in 1..Len(l)}
ListKeys(l) == {l[i].name_with_owner : i \in 1..Len(l)}
NoDupKeys(l) ==
  \A i, j \in 1..Len(l) : l[i].name_with_owner = l[j].name_with_owner => i = j
Front(l) == SubSeq(l, 1, Len(l) - 1)
Last(l) == l[Len(l)]
Max(a, b) == IF a >= b THEN a ELSE b

\* The pool as the loop of add_new_projects finds it at the start of a call.
PoolNow == [projects |-> existing_projects, repos |-> existing_repos, stats |-> ZeroStats]

\* The value a strategy compares.
Metric(p, strategy) ==
  CASE strategy = "lowest_stars" -> p.stars
    [] strategy = "oldest" -> p.updated_at
    [] OTHER -> p.stars + p.forks + p.watchers

\* The pool list with, for each key, the latest record held for it (the index's).
Latest(st) ==
  [i \in 1..Len(st.projects) |-> DictGet(st.repos, st.projects[i].name_with_owner)]

\* The first record of l with the least value under the strategy.
Weakest(l, strategy) ==
  LET i == CHOOSE j \in 1..Len(l) :
             /\ \A h \in 1..Len(l) : Metric(l[j], strategy) <= Metric(l[h], strategy)
             /\ \A h \in 1..(j - 1) : Metric(l[h], strategy) > Metric(l[j], strategy)
  IN l[i]

\* C1 (as claimed): after every add_new_projects call, whatever its candidate
\* list, max_total and strategy, the pool holds at most max_total records.
C1_SizeAtMostMaxTotal ==
  \A new_projects \in CandLists, max_total \in 1..MaxTotal, strategy \in Strategies :
    Len(add_new_projects(existing_projects, existing_repos,
                         new_projects, max_total, strategy).projects) <= max_total

\* C2: after every add_new_projects call no two records of the pool list, nor of
\* the file the call wrote, share a name_with_owner.
C2_NoDuplicateKeys ==
  /\ NoDupKeys(existing_projects)
  /\ data_file.exists => NoDupKeys(data_file.data)

\* C2 witness: a saved pool of three records in which a key was submitted again
\* after it was added (the index holds a later record than the list).
C2_Witness ==
  /\ Len(existing_projects) = 3
  /\ data_file = File(existing_projects)
  /\ \E i \in 1..3 :
       DictGet(existing_repos, existing_projects[i].name_with_owner) # existing_projects[i]

\* C5 (as claimed): when the candidate a call processes last is absent, the pool
\* is at capacity and the candidate strictly exceeds the weakest record under
\* the strategy, judged on the latest record held for each key (first in pool
\* order on ties), the call removes exactly that record, inserts the candidate,
\* counts one replaced and keeps every other record.
C5_EvictsTheWeakest ==
  \A new_projects \in CandLists \ {<<>>}, max_total \in 1..MaxTotal,
     strategy \in Strategies :
    LET pre == AddAll(PoolNow, Front(new_projects), max_total, strategy)
        cand == Last(new_projects)
        post == add_new_projects(existing_projects, existing_repos,
                                 new_projects, max_total, strategy)
    IN (/\ Len(pre.projects) = max_total
        /\ ~DictHas(pre.repos, cand.name_with_owner)
        /\ Metric(cand, strategy) > Metric(Weakest(Latest(pre), strategy), strategy))
       => LET weakest == Weakest(Latest(pre), strategy)
          IN /\ post.stats.replaced = pre.stats.replaced + 1
             /\ cand \in Range(post.projects)
             /\ weakest.name_with_owner \notin ListKeys(post.projects)
             /\ \A p \in Range(pre.projects) :
                  p.name_with_owner # weakest.name_with_owner => p \in Range(post.projects)

\* C6 (as claimed): when the candidate a call processes last is already in the
\* pool with a different star count, the list the call leaves and writes to the
\* file holds the candidate's record for that key, and the candidate is counted
\* as updated.
C6_UpdateReplacesInPlace ==
  \A new_projects \in CandLists \ {<<>>}, max_total \in 1..MaxTotal,
     strategy \in Strategies :
    LET pre == AddAll(PoolNow, Front(new_projects), max_total, strategy)
        cand == Last(new_projects)
        post == add_new_projects(existing_projects, existing_repos,
                                 new_projects, max_total, strategy)
    IN (/\ DictHas(pre.repos, cand.name_with_owner)
        /\ cand.stars # DictGet(pre.repos, cand.name_with_owner).stars)
       => /\ post.stats.updated = pre.stats.updated + 1
          /\ cand \in Range(post.projects)
          /\ \A p \in Range(post.projects) :
               p.name_with_owner = cand.name_with_owner => p = cand

\* C13 (as claimed): a second add_new_projects call with the candidate list, max_total and
\* strategy of the call just made adds nothing and replaces nothing: it counts
\* every candidate as updated or skipped and leaves the key set of the pool
\* (list and index) as the first call left it.
C13_SecondCallAddsNothing ==
  \A new_projects \in CandLists, max_total \in 1..MaxTotal, strategy \in Strategies :
    LET first == add_new_projects(existing_projects, existing_repos,
                                  new_projects, max_total, strategy)
        second == add_new_projects(first.projects, first.repos,
                                   new_projects, max_total, strategy)
    IN /\ second.stats.added = 0
       /\ second.stats.replaced = 0
       /\ second.stats.updated + second.stats.skipped = Len(new_projects)
       /\ ListKeys(second.projects) = ListKeys(first.projects)
       /\ DictKeys(second.repos) = DictKeys(first.repos)

\* The documented example: the loaded pool holds three records with 10, 5 and 2
\* stars, and the call made on it had max_total 3, strategy lowest_stars and
\* one candidate of 3 stars whose key the pool did not hold.
StarsOf(l) == [i \in 1..Len(l) |-> l[i].stars]
ExampleCall ==
  /\ last_call # None
  /\ StarsOf(last_call[1].before) = <<10, 5, 2>>
  /\ last_call[1].max_total = 3
  /\ last_call[1].strategy = "lowest_stars"
  /\ last_call[1].new_projects[1].stars = 3
  /\ last_call[1].new_projects[1].name_with_owner \notin ListKeys(last_call[1].before)

\* C14 (as claimed): in the documented example the candidate is counted as
\* skipped and the pool is unchanged.
C14_ThreeStarsSkipped ==
  ExampleCall =>
    /\ last_call[1].stats = [ZeroStats EXCEPT !.skipped = 1]
    /\ existing_projects = last_call[1].before
    /\ data_file = File(last_call[1].before)

\* C14 (amended): in the documented example the candidate, having more stars
\* than the 2-star record, replaces exactly that record: the call counts one
\* replaced, and the list and the file hold the 10-star record, the 5-star
\* record and the candidate, in that order.
C14_ThreeStarsReplacesTwo ==
  ExampleCall =>
    /\ last_call[1].stats = [ZeroStats EXCEPT !.replaced = 1]
    /\ existing_projects = <<last_call[1].before[1], last_call[1].before[2],
                             last_call[1].new_projects[1]>>
    /\ data_file = File(existing_projects)
    /\ DictKeys(existing_repos) = ListKeys(existing_projects)

\* C14 witness: the example call was made and replaced a record.
C14_Witness ==
  /\ ExampleCall
  /\ last_call[1].stats.replaced = 1
  /\ StarsOf(existing_projects) = <<10, 5, 3>>

(***************************************************************************)
(* Properties of the checkpointed collector.                               *)
(***************************************************************************)
\* The run loaded a checkpoint at entry.
Resumed == pc # "idle" /\ start_cursor # None

\* C3 (as claimed): in a run that resumed from a checkpoint, the first batch
\* asked for is the one after the saved cursor, and no batch at or before the
\* saved cursor is asked for.
C3_ResumesAfterSavedCursor ==
  (Resumed /\ requests # <<>>) =>
    /\ requests[1] = start_cursor
    /\ \A i \in 1..Len(requests) :
         requests[i] # None /\ requests[i][1] >= start_cursor[1]

\* C4 (as claimed): a run with target max_results is killed after its last
\* checkpoint and restarted with the same max_results against the same source,
\* which holds at least max_results items; when the second run ends, the count
\* of that checkpoint plus the items the second run fetched is max_results.
C4_TwoRunsFetchMaxResults ==
  (/\ pc = "returned" /\ outcome \in {"end", "max"}
   /\ Resumed /\ interrupted # None /\ max_results # None
   /\ interrupted[1].max_results = max_results
   /\ interrupted[1].source = source
   /\ interrupted[1].start_count = 0
   /\ interrupted[1].saves # <<>>
   /\ Last(interrupted[1].saves).progress.count = start_count
   /\ SourceTotal(source) >= max_results[1])
  => start_count + total_fetched = max_results[1]

\* C7 (as claimed): when a run ends because a batch could not be fetched, a
\* checkpoint that exists for the task is still there after the call returns.
C7_FailureKeepsCheckpoint ==
  [][(/\ pc = "fetched" /\ pc' = "returned" /\ outcome = "failed"
      /\ checkpoints[TaskId] # None)
     => checkpoints'[TaskId] # None]_vars

\* C8 (as claimed): when a run ends because the source had no more pages or the
\* target was reached, no checkpoint exists for the task after the call returns.
C8_SuccessClearsCheckpoint ==
  (pc = "returned" /\ outcome \in {"end", "max"}) => checkpoints[TaskId] = None

\* C9 (as claimed): each batch that takes the cumulative count (saved count plus
\* the records of this run) to or past a multiple of checkpoint_interval is
\* followed by a save of its end cursor, the cumulative count and the query.
C9_SavesAtEveryCrossing ==
  [][(/\ pc = "fetching" /\ outcome' \notin {"failed", "save_failed"}
      /\ total_fetched' > total_fetched
      /\ \E n \in (start_count + total_fetched + 1)..(start_count + total_fetched') :
           n % checkpoint_interval = 0)
     => checkpoints'[TaskId] =
          Some([cursor |-> cursor',
                progress |-> [count |-> start_count + total_fetched', query |-> Query]])]_vars

\* C10 (as claimed): a run resumed with saved count c and target max_results m
\* collects at most max(m - c, 0) records.
C10_ResumeCollectsRemainder ==
  (Resumed /\ max_results # None) =>
    Len(all_repos) <= Max(max_results[1] - start_count, 0)

(***************************************************************************)
(* Properties of the checkpoint store.                                     *)
(***************************************************************************)
\* The file of the task is absent or is what a save_checkpoint call left.
Undamaged(t) ==
  checkpoints[t] = None
  \/ (IsJson(checkpoints[t][1]) /\ "progress" \in DOMAIN checkpoints[t][1])

\* C11: after any sequence of save_checkpoint and clear_checkpoint calls,
\* load_checkpoint(task_id) returns the cursor and progress of the most recent
\* save for that task, and returns absent when the task was never saved or was
\* cleared after its last save; the tasks do not disturb each other.
C11_LastWriteWins ==
  \A t \in TaskIds :
    Undamaged(t) =>
      /\ ~load_checkpoint_raises(checkpoints, t)
      /\ IF live[t] = None
         THEN load_checkpoint(checkpoints, t) = None
         ELSE /\ load_checkpoint(checkpoints, t) # None
              /\ load_checkpoint(checkpoints, t)[1].cursor = live[t][1].cursor
              /\ load_checkpoint(checkpoints, t)[1].progress = live[t][1].progress

\* C11 witness: a load of a task whose checkpoint was overwritten by a later,
\* different save returned that later save, while the other task has none.
C11_Witness ==
  /\ loaded # None
  /\ loaded[1].task_id = TaskId
  /\ ~loaded[1].raised
  /\ loaded[1].value # None
  /\ live[TaskId] # None
  /\ live[TaskId][1].overwrote
  /\ loaded[1].value[1].cursor = live[TaskId][1].cursor
  /\ live[OtherTaskId] = None
  /\ checkpoints[OtherTaskId] = None

\* C12 (as claimed): load_checkpoint never raises to its caller; on a damaged
\* checkpoint file (not JSON, unreadable, or JSON without the expected
\* members) it returns absent.
C12_LoadNeverRaises ==
  loaded # None =>
    /\ ~loaded[1].raised
    /\ ~Undamaged(loaded[1].task_id) => loaded[1].value = None

(***************************************************************************)
(* Properties of refresh_stale_projects.                                   *)
(***************************************************************************)
\* The age test as the specification words it: no last_stats_update, or one
\* older than now minus days_old.
NeedsRefresh(project, days_old) ==
  \/ project.last_stats_update = None
  \/ now - project.last_stats_update[1] > days_old

\* number of answers among the first n that gave an updated project
RECURSIVE Refreshed(_, _)
Refreshed(responses, n) ==
  IF n = 0 THEN 0
  ELSE Refreshed(responses, n - 1) + (IF responses[n].kind = "ok" THEN 1 ELSE 0)

\* C15: refresh_stale_projects(days_old) issues a single-record request for a
\* record of the pool list if and only if the record has no last_stats_update
\* or one older than now minus days_old: the requests made are, in pool
\* order, one for each such record and no other.
C15_RequestsExactlyTheStale ==
  last_refresh # None =>
    LET r == last_refresh[1]
        stale == SelectSeq(r.before, LAMBDA p : NeedsRefresh(p, r.days_old))
    IN r.requests = [i \in 1..Len(stale) |-> stale[i].name_with_owner]

\* C15 witness: a refresh of a pool of two dated records, one older than the
\* cutoff and one not, asked for the older one only.
C15_Witness ==
  /\ last_refresh # None
  /\ Len(last_refresh[1].before) = 2
  /\ \A i \in 1..2 : last_refresh[1].before[i].last_stats_update # None
  /\ last_refresh[1].days_old > 0
  /\ Len(last_refresh[1].requests) = 1
  /\ \E i \in 1..2 :
       /\ last_refresh[1].requests[1] = last_refresh[1].before[i].name_with_owner
       /\ now - last_refresh[1].before[i].last_stats_update[1] > last_refresh[1].days_old

\* C16 (as claimed): once a single-record refresh is answered with a rate
\* limit, no request is issued for the stale records after it, and the call
\* returns the number of records refreshed before the rate limit.
C16_RateLimitEndsTheBatch ==
  last_refresh # None =>
    LET r == last_refresh[1] IN
    \A i \in 1..Len(r.requests) :
      r.responses[i].kind = "rate_limit" =>
        /\ Len(r.requests) = i
        /\ r.returned = Refreshed(r.responses, i - 1)

\* C17 (as claimed): a single-record refresh that fails or reports not-found
\* leaves that record in the pool with its previous values, the stale records
\* after it are still asked for, and the refresh does not change the set of
\* keys in the pool.
C17_FailureKeepsTheRecord ==
  last_refresh # None =>
    LET r == last_refresh[1]
        stale == SelectSeq(r.before, LAMBDA p : NeedsRefresh(p, r.days_old))
    IN /\ \A i \in 1..Len(r.requests) :
            r.responses[i].kind \in {"not_found", "error"} =>
              /\ \E j \in 1..Len(r.before) :
                   /\ r.before[j].name_with_owner = r.requests[i]
                   /\ r.before[j] \in Range(existing_projects)
              /\ Len(r.requests) = Len(stale)
       /\ ListKeys(existing_projects) = ListKeys(r.before)

(***************************************************************************)
(* Properties of the save with backup                                      *)
(***************************************************************************)
\* C18: a pool file that exists but cannot be parsed is reported to the
\* caller; no manager runs on with the empty pool it got from such a file.
C18_CorruptLoadIsReported ==
  \A w \in Workers : procs[w].loaded_corrupt => procs[w].pc = "down"

\* C19: across saves, deaths in the middle of a write of the pool file and
\* restarts, the backup file, once it exists, holds a whole document that
\* was a complete pool file earlier.
C19_BackupIsACompleteGeneration ==
  backup_file.exists =>
    /\ IsComplete(backup_file)
    /\ backup_file.data \in generations

InSave(w) == procs[w].pc \in {"backup", "open", "dump"}
BothSaved ==
  /\ \A w \in Workers : procs[w].pc = "ready"
  /\ data_file.exists

\* C20: two workers saving to one pool file are serialized: never both
\* between the first and last file access of a save, and once both are done
\* the pool file is one worker's whole pool and the backup, if there is one,
\* was once the complete pool file.
C20_SavesAreSerialized ==
  /\ ~(InSave("w1") /\ InSave("w2"))
  /\ BothSaved =>
       /\ IsComplete(data_file)
       /\ \E w \in Workers : data_file.data = procs[w].projects
       /\ backup_file.exists =>
            IsComplete(backup_file) /\ backup_file.data \in generations


(***************************************************************************)
(* Properties of the requests of the cursor-based collector.               *)
(***************************************************************************)
\* C21 (as claimed): a page request answered with a rate limit does not end
\* the run: the loop goes on, and with the same cursor.
C21_RateLimitNeverEndsRun ==
  [][(pc = "fetching" /\ fetch_error' = "rate_limited")
     => (pc' = "fetching" /\ cursor' = cursor)]_vars

\* C22 (as claimed): the run ends on a transient fault of a page request only
\* after that cursor was asked for again at least once.
C22_TransientFaultIsRetried ==
  [][(pc = "fetching" /\ fetch_error' = "transient" /\ pc' # "fetching")
     => (/\ Len(requests') >= 2
         /\ requests'[Len(requests') - 1] = requests'[Len(requests')])]_vars

\* the items of the first n pages of the source, in result order
FirstPages(src, n) == [i \in 1..SumSizes(src, n) |-> i]

C24_SaveFailureKeepsTheRecords ==
  outcome = "save_failed" => pc \in {"fetching", "fetched", "returned"}

\* C25 (as claimed): with max_results given, the list fetch_all_repositories
\* returns never has more than max_results records.
C25_AtMostMaxResults ==
  (pc \in {"fetched", "returned"} /\ Truthy(fetch_max))
    => Len(all_repos) <= fetch_max[1]

\* C28 (as claimed): every checkpoint a run writes, be it a first run or one
\* resumed against the same search result, names the end cursor of the page
\* after which exactly progress.count items of the result had been fetched.
C28_CheckpointIsSelfConsistent ==
  (\/ start_count = 0
   \/ interrupted # None /\ interrupted[1].source = source)
  => \A i \in 1..Len(saves) :
       SumSizes(source, saves[i].cursor[1]) = saves[i].progress.count

(***************************************************************************)
(* Properties of the pool under add_new_projects and refresh together.     *)
(***************************************************************************)
NonIncreasingStars(l) == \A i \in 1..(Len(l) - 1) : l[i].stars >= l[i + 1].stars

\* C26: after an add_new_projects call, and after a refresh_stale_projects
\* call that found stale records, the pool list and the list in the data file
\* are in non-increasing order of stars.
C26_SortedByStars ==
  (\/ last_call # None
   \/ last_refresh # None /\ last_refresh[1].requests # <<>>)
  => /\ NonIncreasingStars(existing_projects)
     /\ data_file.exists
     /\ NonIncreasingStars(data_file.data)

\* C26 witness: a refresh raised the stars of the second record above those
\* of the first, and the two have changed places in the list and in the file.
C26_Witness ==
  /\ last_refresh # None
  /\ Len(last_refresh[1].before) = 2
  /\ Len(existing_projects) = 2
  /\ existing_projects[1].name_with_owner = last_refresh[1].before[2].name_with_owner
  /\ existing_projects[2].name_with_owner = last_refresh[1].before[1].name_with_owner
  /\ existing_projects[1].stars > existing_projects[2].stars
  /\ data_file = File(existing_projects)

\* C27 (as claimed): the index and the pool list hold the same keys, and the
\* index holds for each key the record the list holds.
C27_IndexAgreesWithList ==
  /\ DictKeys(existing_repos) = ListKeys(existing_projects)
  /\ \A i \in 1..Len(existing_projects) :
       DictGet(existing_repos, existing_projects[i].name_with_owner)
         = existing_projects[i]

\* C30 (as claimed): the collect-new operation, which passes refresh_days = 0
\* to mean "no refresh", issues no single-record refresh request.
C30_CollectNewRefreshesNothing ==
  (last_call # None /\ "refresh_days" \in DOMAIN last_call[1])
    => last_call[1].requests = <<>>

(***************************************************************************)
(* Properties of the page-numbered fetchers.                               *)
(***************************************************************************)
\* a 403 answer whose reset time was in the future when it came
RateLimitedAhead(entry) ==
  entry.response.kind = "rate_limit" /\ entry.response.reset > entry.at

\* C29: in search_seattle_users and get_user_repositories a 403 answer with a
\* reset time in the future adds no item and is followed by a request for the
\* same page; the page number goes up, by one, only after a page was
\* received; the items held are those of the pages before the current one,
\* each once and in order, and the list returned is a leading part of them.
C29_RateLimitRetriesSamePage ==
  pager.pc # "idle" =>
    LET log == pager.log IN
    /\ \A i \in 1..Len(log) :
         RateLimitedAhead(log[i]) =>
           /\ log[i].got = 0
           /\ IF i < Len(log)
              THEN log[i + 1].page = log[i].page
              ELSE pager.pc = "loop" /\ pager.page = log[i].page
    /\ \A i \in 1..Len(log) :
         LET next == IF i < Len(log) THEN log[i + 1].page ELSE pager.page IN
         /\ next \in {log[i].page, log[i].page + 1}
         /\ next = log[i].page + 1 => (log[i].response.kind = "ok" /\ log[i].got > 0)
    /\ pager.items = FirstPages(pager.src, pager.page - 1)
    /\ pager.pc = "returned" =>
         Returned(pager) = SubSeq(pager.items, 1, Len(Returned(pager)))

\* C29 witness: the request for the second page was answered with a 403 whose
\* reset time lay ahead, the page was asked for again and received.
C29_Witness ==
  /\ pager.pc # "idle"
  /\ \E i \in 2..(Len(pager.log) - 1) :
       /\ pager.log[i].page = 2
       /\ RateLimitedAhead(pager.log[i])
       /\ pager.log[i + 1].page = 2
       /\ pager.log[i + 1].response.kind = "ok"
       /\ pager.log[i + 1].got > 0
  /\ pager.page = 3

====
